---- MODULE Spec2Model ----
(***************************************************************************)
(* A model of src/ydlidar.rs: the Ydlidar wrapper around the native YDLidar *)
(* SDK.  The wrapper's fields, the two CString buffers and their heap      *)
(* storage are the state; the native layer is an environment that answers  *)
(* every call with a nondeterministic response and, per the comment on the *)
(* struct, keeps the pointer of a string option it was given.              *)
(***************************************************************************)
EXTENDS Integers, Sequences, FiniteSets, TLC

\* ------------------------------------------------------------------ bounds
\* CString allocations made by set_string_property after construction.
MaxAllocs == 2
\* Capacity of the native point array a scan descriptor points to.
MaxPoints == 2

VARIABLES
    pc,            \* "live" | "unwinding" (a panic is propagating) | "dropped"
    lidar_port,    \* Ydlidar.lidar_port   : CString  [ptr, bytes]
    ignore_array,  \* Ydlidar.ignore_array : CString  [ptr, bytes]
    heap,          \* address -> bytes stored there (content with terminator)
    freed,         \* addresses whose storage was released
    sdk,           \* native handle: retained pointers, lidarDestroy count
    late,          \* native calls made on the handle after lidarDestroy
    last,          \* the last operation: its argument, native calls, result
    portArgs,      \* the last two strings of returned set_property(SerialPort)
    step           \* position in the start_lidar script (0: free run)

vars == <<pc, lidar_port, ignore_array, heap, freed, sdk, late, last, portArgs, step>>

\* ----------------------------------------------------------- byte helpers
Range(s) == {s[i] : i \in 1..Len(s)}

HasNul(bytes) == 0 \in Range(bytes)

\* CStr::from_ptr: the bytes from the pointer up to the first terminator.
RECURSIVE FromPtr(_)
FromPtr(mem) ==
    IF mem = <<>> \/ Head(mem) = 0 THEN <<>>
    ELSE <<Head(mem)>> \o FromPtr(Tail(mem))

IsCont(b) == b >= 128 /\ b <= 191

\* CStr::to_str: UTF-8 validation (1- to 4-byte sequences by lead byte and
\* continuation bytes).
RECURSIVE IsUtf8(_)
IsUtf8(b) ==
    IF b = <<>> THEN TRUE
    ELSE IF b[1] < 128 THEN IsUtf8(Tail(b))
    ELSE IF b[1] >= 194 /\ b[1] <= 223
         THEN Len(b) >= 2 /\ IsCont(b[2]) /\ IsUtf8(SubSeq(b, 3, Len(b)))
    ELSE IF b[1] >= 224 /\ b[1] <= 239
         THEN Len(b) >= 3 /\ IsCont(b[2]) /\ IsCont(b[3])
              /\ IsUtf8(SubSeq(b, 4, Len(b)))
    ELSE IF b[1] >= 240 /\ b[1] <= 244
         THEN Len(b) >= 4 /\ IsCont(b[2]) /\ IsCont(b[3]) /\ IsCont(b[4])
              /\ IsUtf8(SubSeq(b, 5, Len(b)))
    ELSE FALSE

\* In-memory representation of the scalar a set_*_property takes the address
\* of (little-endian target).
BoolBytes(v) == IF v THEN <<1>> ELSE <<0>>

IntBytes(v) ==
    << v % 256, (v \div 256) % 256, (v \div 65536) % 256, (v \div 16777216) % 256 >>

\* An f32 is kept as its IEEE-754 fields [s, e, m].
FloatBytes(f) ==
    << f.m % 256, (f.m \div 256) % 256,
       (f.e % 2) * 128 + (f.m \div 65536), f.s * 128 + (f.e \div 2) >>

\* ------------------------------------------------------------ input values
\* "", "/dev/ydlidar", and a &str with an interior NUL: "a\0b"
StrVals ==
    { <<>>, <<47, 100, 101, 118, 47, 121, 100, 108, 105, 100, 97, 114>>,
      <<97, 0, 98>> }

IntVals == {115200, -1}

F32(s, e, m) == [s |-> s, e |-> e, m |-> m]

\* 180.0 and -180.0
FloatVals == {F32(0, 134, 3407872), F32(1, 134, 3407872)}

NoStr == <<>>
NoFloat == F32(0, 0, 0)

Prop(variant, kind, s, i, f, b) ==
    [variant |-> variant, kind |-> kind, s |-> s, i |-> i, f |-> f, b |-> b]

StrProp(variant, s) == Prop(variant, "str", s, 0, NoFloat, FALSE)
IntProp(variant, i) == Prop(variant, "int", NoStr, i, NoFloat, FALSE)
FloatProp(variant, f) == Prop(variant, "float", NoStr, 0, f, FALSE)
BoolProp(variant, b) == Prop(variant, "bool", NoStr, 0, NoFloat, b)

\* enum LidarProperty
StrVariants == {"SerialPort", "IgnoreArray"}
IntVariants ==
    {"SerialBaudRate", "LidarType", "DeviceType", "SampleRate",
     "AbnormalCheckCount", "IntensityBit"}
FloatVariants == {"MaxRange", "MinRange", "MaxAngle", "MinAngle", "ScanFrequency"}
BoolVariants ==
    {"FixedResolution", "Reversion", "Inverted", "AutoReconnect",
     "SingleChannel", "Intensity", "SupportMotorDtrCtrl", "SupportHeartBeat"}

Props ==
    {StrProp(v, s) : v \in StrVariants, s \in StrVals}
    \cup {IntProp(v, i) : v \in IntVariants, i \in IntVals}
    \cup {FloatProp(v, f) : v \in FloatVariants, f \in FloatVals}
    \cup {BoolProp(v, b) : v \in BoolVariants, b \in BOOLEAN}

\* ---------------------------------------------------- native layer answers
\* Memory DescribeError may point to: "é" in UTF-8 (its terminator followed
\* by unrelated bytes), and a lone UTF-8 lead byte.
ErrMems == { <<195, 169, 0, 88>>, <<195, 0>> }

OkResp == [ok |-> TRUE, err |-> <<0>>]
Responses == {OkResp} \cup {[ok |-> FALSE, err |-> e] : e \in ErrMems}

Point(a, r, i) == [angle |-> a, range |-> r, intensity |-> i]
PointVals == {Point(10, 20, 30), Point(11, 21, 31)}
Stamps == {0, 7}

DefaultFan == [stamp |-> 0, npoints |-> 0, points |-> <<>>]

\* Scan descriptors the native layer can fill in: a timestamp, a count and a
\* pointer to an array of MaxPoints records of which npoints are valid.
Fans ==
    {[stamp |-> t, npoints |-> n, points |-> p] :
        t \in Stamps, n \in 0..MaxPoints, p \in [1..MaxPoints -> PointVals]}

\* The descriptor after a failed call: as LaserFan::default() made it, or
\* filled in all the same.
FailFans ==
    {DefaultFan}
    \cup {f \in Fans : /\ f.stamp # 0 /\ f.npoints = MaxPoints
                       /\ \A i \in 1..MaxPoints : f.points[i] = f.points[1]}

\* ------------------------------------------------------------ native calls
Call(fn, index, ptr, mem, len, ret, text) ==
    [fn |-> fn, index |-> index, ptr |-> ptr, mem |-> mem, len |-> len,
     ret |-> ret, text |-> text]

\* setlidaropt(self.lidar, property_index, ptr, len) -> bool
SetOptCall(index, ptr, mem, len, ret) ==
    Call("setlidaropt", index, ptr, mem, len, ret, <<>>)

\* initialize / turnOn / turnOff / doProcessSimple (self.lidar) -> bool
BoolCall(fn, ret) == Call(fn, "", 0, <<>>, 0, ret, <<>>)

\* disconnecting / lidarDestroy (self.lidar)
VoidCall(fn) == Call(fn, "", 0, <<>>, 0, TRUE, <<>>)

\* DescribeError(self.lidar) -> *const c_char, pointing at errMem
DescribeCall(errMem) == Call("DescribeError", "", 0, <<>>, 0, TRUE, errMem)

\* The option of the native handle that keeps the pointer it is given.
Retains(index) ==
    CASE index = "LidarPropSerialPort" -> "port"
      [] index = "LidarPropIgnoreArray" -> "ignore"
      [] OTHER -> "none"

\* The content of storage that was released.
Garbage == <<-1>>

\* What the native layer reads through a pointer it kept.
NativeRead(ptr) ==
    IF ptr = 0 \/ ptr \in freed THEN Garbage ELSE FromPtr(heap[ptr])

\* Native calls of an operation that come after the handle was destroyed.
RECURSIVE LateCalls(_, _)
LateCalls(destroyed, calls) ==
    IF calls = <<>> THEN 0
    ELSE (IF destroyed > 0 THEN 1 ELSE 0)
         + LateCalls(destroyed + (IF Head(calls).fn = "lidarDestroy" THEN 1 ELSE 0),
                     Tail(calls))

Destroys(calls) == Cardinality({i \in 1..Len(calls) : calls[i].fn = "lidarDestroy"})

\* ---------------------------------------------------------------- results
NoProp == Prop("", "", NoStr, 0, NoFloat, FALSE)

OkUnit == [kind |-> "Ok", description |-> <<>>, scan |-> <<>>]
Unit == [kind |-> "Unit", description |-> <<>>, scan |-> <<>>]
Panic == [kind |-> "Panic", description |-> <<>>, scan |-> <<>>]
Err(desc) == [kind |-> "Err", description |-> desc, scan |-> <<>>]
OkScan(s) == [kind |-> "Ok", description |-> <<>>, scan |-> <<s>>]

\* LidarError::new(CStr::from_ptr(DescribeError(..)).to_str().unwrap())
LidarErrorNew(errMem) ==
    LET text == FromPtr(errMem)
    IN  IF IsUtf8(text) THEN Err(text) ELSE Panic

\* The test of the native result written without the negation: `if ok`.
FailedInverted(ok) == ok

\* `if !ok`
Failed(ok) == ~ok

\* The description queried before the result is looked at, on success too.
ErrorPathEager(ok, errMem) ==
    << [call |-> DescribeCall(errMem),
        result |-> IF Failed(ok) THEN LidarErrorNew(errMem) ELSE OkUnit] >>

\* if !ok { DescribeError ...; return Err(..) } -- the calls the error path
\* adds and the result it returns; <<>> when the operation goes on.
ErrorPath(ok, errMem) ==
    IF Failed(ok) THEN << [call |-> DescribeCall(errMem), result |-> LidarErrorNew(errMem)] >>
    ELSE <<>>

\* LaserPoint::new(angle, range, intensity)
LaserPointNew(angle, range, intensity) ==
    [angle |-> angle, range |-> range, intensity |-> intensity]

\* LaserScan::new(stamp, points)
LaserScanNew(stamp, points) == [stamp |-> stamp, points |-> points]

\* for i in 0..npoints { points.push(LaserPoint::new(*fan.points.add(i) ..)) }
RECURSIVE CopyFrom(_, _, _)
CopyFrom(fan, i, points) ==
    IF i >= fan.npoints THEN points
    ELSE LET p == fan.points[i + 1]
         IN  CopyFrom(fan, i + 1,
                      Append(points, LaserPointNew(p.angle, p.range, p.intensity)))

\* The copy loop started at the second record: `for i in 1..npoints`.
CopyPointsSkipFirst(fan) == CopyFrom(fan, 1, <<>>)

CopyPoints(fan) == CopyFrom(fan, 0, <<>>)

\* fan.npoints.try_into().unwrap()
TryIntoUsize(n) == n >= 0

\* ------------------------------------------------------- property dispatch
\* The match of set_property: the native index each variant is sent with.
PropertyIndex(variant) ==
    CASE variant = "SerialPort" -> "LidarPropSerialPort"
      [] variant = "IgnoreArray" -> "LidarPropIgnoreArray"
      [] variant = "SerialBaudRate" -> "LidarPropSerialBaudrate"
      [] variant = "LidarType" -> "LidarPropLidarType"
      [] variant = "DeviceType" -> "LidarPropDeviceType"
      [] variant = "SampleRate" -> "LidarPropSampleRate"
      [] variant = "AbnormalCheckCount" -> "LidarPropAbnormalCheckCount"
      [] variant = "IntensityBit" -> "LidarPropIntenstiyBit"
      [] variant = "MaxRange" -> "LidarPropMaxRange"
      [] variant = "MinRange" -> "LidarPropMinRange"
      [] variant = "MaxAngle" -> "LidarPropMaxAngle"
      [] variant = "MinAngle" -> "LidarPropMinAngle"
      [] variant = "ScanFrequency" -> "LidarPropScanFrequency"
      [] variant = "FixedResolution" -> "LidarPropFixedResolution"
      [] variant = "Reversion" -> "LidarPropReversion"
      [] variant = "Inverted" -> "LidarPropInverted"
      [] variant = "AutoReconnect" -> "LidarPropAutoReconnect"
      [] variant = "SingleChannel" -> "LidarPropSingleChannel"
      [] variant = "Intensity" -> "LidarPropIntenstiy"
      [] variant = "SupportMotorDtrCtrl" -> "LidarPropSupportMotorDtrCtrl"
      [] variant = "SupportHeartBeat" -> "LidarPropSupportHeartBeat"

\* The helper each variant is dispatched to, by the type of its payload.
Setter(kind) ==
    CASE kind = "str" -> "set_string_property"
      [] kind = "int" -> "set_int_property"
      [] kind = "float" -> "set_float_property"
      [] kind = "bool" -> "set_bool_property"

\* std::mem::size_of::<bool|f32|i32>()
SizeOf(setter) ==
    CASE setter = "set_bool_property" -> 1
      [] setter = "set_float_property" -> 4
      [] setter = "set_int_property" -> 4

\* The local `value` whose address the scalar setters pass.
ValueBytes(prop) ==
    CASE prop.kind = "bool" -> BoolBytes(prop.b)
      [] prop.kind = "float" -> FloatBytes(prop.f)
      [] prop.kind = "int" -> IntBytes(prop.i)

\* Both arms of the match storing into lidar_port.
StringFieldPortOnly(index) ==
    CASE index = "LidarPropSerialPort" -> "lidar_port"
      [] index = "LidarPropIgnoreArray" -> "lidar_port"
      [] OTHER -> "panic"

\* The match of set_string_property: the field an index is stored in.
StringField(index) ==
    CASE index = "LidarPropSerialPort" -> "lidar_port"
      [] index = "LidarPropIgnoreArray" -> "ignore_array"
      [] OTHER -> "panic"

\* (ptr, len) of set_string_property: self.<field>.as_ptr() and
\* self.<field>.as_bytes().len(), taken after the field was replaced.
StringArg(cstring) == [ptr |-> cstring.ptr, len |-> Len(cstring.bytes)]

\* A wrapper without the Drop implementation.
DropCallsNone == <<>>

\* The native calls of Drop::drop.
DropCalls == << VoidCall("lidarDestroy") >>

\* ------------------------------------------------------------------ state
\* CString::default(): an allocation holding only the terminator.
CStringDefault(ptr) == [ptr |-> ptr, bytes |-> <<>>]

Op(op, prop, calls, result, fan) ==
    [op |-> op, prop |-> prop, calls |-> calls, result |-> result, fan |-> fan]

\* Ydlidar::new(): lidarCreate() and two default CStrings.
New ==
    /\ pc = "live"
    /\ lidar_port = CStringDefault(1)
    /\ ignore_array = CStringDefault(2)
    /\ heap = << <<0>>, <<0>> >>
    /\ freed = {}
    /\ sdk = [port |-> 0, ignore |-> 0, destroyed |-> 0]
    /\ late = 0
    /\ last = Op("new", NoProp, << VoidCall("lidarCreate") >>, Unit, DefaultFan)
    /\ portArgs = <<>>

Init == New /\ step = 0

\* The part every operation shares: the record of the operation, the count of
\* calls on a destroyed handle, and the unwinding a panic starts.
Finish(op, prop, calls, result, fan) ==
    /\ last' = Op(op, prop, calls, result, fan)
    /\ late' = late + LateCalls(sdk.destroyed, calls)
    /\ pc' = IF result.kind = "Panic" THEN "unwinding" ELSE pc

\* The calls and the result of `if !native(..) { error path } Ok(())`.
AfterBool(first, resp, okResult) ==
    LET e == ErrorPath(resp.ok, resp.err)
    IN  [calls |-> IF e = <<>> THEN << first >> ELSE << first, e[1].call >>,
         result |-> IF e = <<>> THEN okResult ELSE e[1].result]

\* ------------------------------------------------------------ set_property
\* set_bool_property / set_float_property / set_int_property
SetScalarProperty(prop, index, resp) ==
    LET call == SetOptCall(index, 0, ValueBytes(prop), SizeOf(Setter(prop.kind)), resp.ok)
        r == AfterBool(call, resp, OkUnit)
    IN  /\ Finish("set_property", prop, r.calls, r.result, DefaultFan)
        /\ UNCHANGED <<lidar_port, ignore_array, heap, freed, sdk, portArgs>>

\* set_string_property.  `stores`: whether the native layer kept the pointer
\* of a call it rejected (it keeps the pointer of every call it accepts).
SetStringProperty(prop, index, resp, stores) ==
    LET field == StringField(index)
    IN  IF field = "panic" \/ HasNul(prop.s)
        THEN \* panic!("Unknown string property") / CString::new(value).unwrap()
             /\ Finish("set_property", prop, <<>>, Panic, DefaultFan)
             /\ UNCHANGED <<lidar_port, ignore_array, heap, freed, sdk, portArgs>>
        ELSE LET new == [ptr |-> Len(heap) + 1, bytes |-> prop.s]
                 old == IF field = "lidar_port" THEN lidar_port ELSE ignore_array
                 arg == StringArg(new)
                 mem == Append(new.bytes, 0)
                 call == SetOptCall(index, arg.ptr, mem, arg.len, resp.ok)
                 r == AfterBool(call, resp, OkUnit)
                 kept == Retains(index)
             IN  /\ Len(heap) < 2 + MaxAllocs
                 /\ heap' = Append([heap EXCEPT ![old.ptr] = Garbage], mem)
                 /\ freed' = freed \cup {old.ptr}
                 /\ lidar_port' = IF field = "lidar_port" THEN new ELSE lidar_port
                 /\ ignore_array' = IF field = "ignore_array" THEN new ELSE ignore_array
                 /\ sdk' = IF (resp.ok \/ stores) /\ kept # "none"
                           THEN [sdk EXCEPT ![kept] = arg.ptr] ELSE sdk
                 /\ portArgs' =
                        IF prop.variant = "SerialPort" /\ r.result.kind # "Panic"
                        THEN (IF portArgs = <<>> THEN << prop.s >>
                              ELSE << portArgs[Len(portArgs)], prop.s >>)
                        ELSE portArgs
                 /\ Finish("set_property", prop, r.calls, r.result, DefaultFan)

SetProperty(prop, resp, stores) ==
    /\ pc = "live"
    /\ LET index == PropertyIndex(prop.variant)
       IN  IF Setter(prop.kind) = "set_string_property"
           THEN SetStringProperty(prop, index, resp, stores)
           ELSE SetScalarProperty(prop, index, resp)

\* ---------------------------------------------------------------- lifecycle
Initialize(resp) ==
    /\ pc = "live"
    /\ LET r == AfterBool(BoolCall("initialize", resp.ok), resp, OkUnit)
       IN  Finish("initialize", NoProp, r.calls, r.result, DefaultFan)
    /\ UNCHANGED <<lidar_port, ignore_array, heap, freed, sdk, portArgs>>

Disconnect ==
    /\ pc = "live"
    /\ Finish("disconnect", NoProp, << VoidCall("disconnecting") >>, Unit, DefaultFan)
    /\ UNCHANGED <<lidar_port, ignore_array, heap, freed, sdk, portArgs>>

TurnOn(resp) ==
    /\ pc = "live"
    /\ LET r == AfterBool(BoolCall("turnOn", resp.ok), resp, OkUnit)
       IN  Finish("turn_on", NoProp, r.calls, r.result, DefaultFan)
    /\ UNCHANGED <<lidar_port, ignore_array, heap, freed, sdk, portArgs>>

TurnOff(resp) ==
    /\ pc = "live"
    /\ LET r == AfterBool(BoolCall("turnOff", resp.ok), resp, OkUnit)
       IN  Finish("turn_off", NoProp, r.calls, r.result, DefaultFan)
    /\ UNCHANGED <<lidar_port, ignore_array, heap, freed, sdk, portArgs>>

\* do_process_simple.  `fan`: the descriptor as the native call left it.
DoProcessSimple(resp, fan) ==
    /\ pc = "live"
    /\ LET scan == IF TryIntoUsize(fan.npoints)
                   THEN OkScan(LaserScanNew(fan.stamp, CopyPoints(fan)))
                   ELSE Panic
           r == AfterBool(BoolCall("doProcessSimple", resp.ok), resp, scan)
       IN  Finish("do_process_simple", NoProp, r.calls, r.result, fan)
    /\ UNCHANGED <<lidar_port, ignore_array, heap, freed, sdk, portArgs>>

\* Drop for Ydlidar: drop() calls lidarDestroy, then the fields are dropped.
\* It runs when the owner lets go of the value or a panic unwinds through it.
Drop ==
    /\ pc \in {"live", "unwinding"}
    /\ last' = Op("drop", NoProp, DropCalls, Unit, DefaultFan)
    /\ late' = late + LateCalls(sdk.destroyed, DropCalls)
    /\ sdk' = [sdk EXCEPT !.destroyed = @ + Destroys(DropCalls)]
    /\ freed' = freed \cup {lidar_port.ptr, ignore_array.ptr}
    /\ pc' = "dropped"
    /\ heap' = [heap EXCEPT ![lidar_port.ptr] = Garbage, ![ignore_array.ptr] = Garbage]
    /\ UNCHANGED <<lidar_port, ignore_array, portArgs>>

\* ------------------------------------------------------------ specification
Next ==
    \/ \E prop \in Props, resp \in Responses :
           \E stores \in (IF prop.kind = "str" /\ ~resp.ok THEN BOOLEAN ELSE {TRUE}) :
               SetProperty(prop, resp, stores) /\ UNCHANGED step
    \/ \E resp \in Responses : Initialize(resp) /\ UNCHANGED step
    \/ Disconnect /\ UNCHANGED step
    \/ \E resp \in Responses : TurnOn(resp) /\ UNCHANGED step
    \/ \E resp \in Responses : TurnOff(resp) /\ UNCHANGED step
    \/ \E resp \in Responses :
           \E fan \in (IF resp.ok THEN Fans ELSE FailFans) :
               DoProcessSimple(resp, fan) /\ UNCHANGED step
    \/ Drop /\ UNCHANGED step

Spec == Init /\ [][Next]_vars

\* ---------------------------------------------------- the start_lidar test
\* tests::start_lidar, one property per line of the test.
Script ==
    << StrProp("SerialPort", <<47, 100, 101, 118, 47, 121, 100, 108, 105, 100, 97, 114>>),
       StrProp("IgnoreArray", <<>>),
       IntProp("SerialBaudRate", 115200),
       IntProp("LidarType", 1),
       IntProp("DeviceType", 0),
       IntProp("SampleRate", 3),
       IntProp("AbnormalCheckCount", 4),
       BoolProp("FixedResolution", TRUE),
       BoolProp("Reversion", FALSE),
       BoolProp("Inverted", TRUE),
       BoolProp("AutoReconnect", TRUE),
       BoolProp("SingleChannel", TRUE),
       BoolProp("Intensity", FALSE),
       BoolProp("SupportMotorDtrCtrl", TRUE),
       FloatProp("MaxAngle", F32(0, 134, 3407872)),
       FloatProp("MinAngle", F32(1, 134, 3407872)),
       FloatProp("MaxRange", F32(0, 130, 4194304)),
       FloatProp("MinRange", F32(0, 123, 5033165)),
       FloatProp("ScanFrequency", F32(0, 131, 2097152)) >>

\* The values tried at a line of the script: the test's own and the other
\* values of the same option that can be written as a C string.
ScriptProps(i) ==
    {Script[i]} \cup {p \in Props : p.variant = Script[i].variant /\ ~HasNul(p.s)}

\* A scan the fake native layer simulates: at least one point, stamp not 0.
GoodFans == {f \in Fans : f.npoints > 0 /\ f.stamp # 0}

AtInitialize == Len(Script) + 1
AtTurnOn == Len(Script) + 2
AtScan == Len(Script) + 3
AtTurnOff == Len(Script) + 4
AtDisconnect == Len(Script) + 5
AtEnd == Len(Script) + 6
Finished == Len(Script) + 7

InitScenario == New /\ step = 1

ScenarioNext ==
    \/ /\ step \in 1..Len(Script)
       /\ \E prop \in ScriptProps(step) : SetProperty(prop, OkResp, TRUE)
       /\ step' = step + 1
    \/ step = AtInitialize /\ Initialize(OkResp) /\ step' = step + 1
    \/ step = AtTurnOn /\ TurnOn(OkResp) /\ step' = step + 1
    \/ step = AtScan /\ (\E fan \in GoodFans : DoProcessSimple(OkResp, fan))
                     /\ step' = step + 1
    \/ step = AtTurnOff /\ TurnOff(OkResp) /\ step' = step + 1
    \/ step = AtDisconnect /\ Disconnect /\ step' = step + 1
    \/ step = AtEnd /\ Drop /\ step' = step + 1

SpecScenario == InitScenario /\ [][ScenarioNext]_vars

\* ------------------------------------------------------------------ claims
BoolFns == {"setlidaropt", "initialize", "turnOn", "turnOff", "doProcessSimple"}
ErrOps == {"set_property", "initialize", "turn_on", "turn_off", "do_process_simple"}

CallsOf(fns) == {i \in 1..Len(last.calls) : last.calls[i].fn \in fns}
FailedCalls == {i \in CallsOf(BoolFns) : ~last.calls[i].ret}

\* desc is the C string that starts at mem.
IsTextOf(desc, mem) ==
    /\ ~HasNul(desc)
    /\ Len(mem) > Len(desc)
    /\ SubSeq(mem, 1, Len(desc)) = desc
    /\ mem[Len(desc) + 1] = 0

\* C1: after set_property(SerialPort(s1)) and then set_property(SerialPort(s2))
\* with s1 # s2, what the native layer reads through the serial-port pointer
\* it retains is s2 -- not s1, not released storage.
C1_SecondStringIsRead ==
    (pc = "live" /\ Len(portArgs) = 2 /\ portArgs[1] # portArgs[2] /\ sdk.port # 0)
        => NativeRead(sdk.port) = portArgs[2]

\* C2: lidarDestroy is called exactly once, when the instance is dropped, and
\* no native call is made on the handle after it.
C2_DestroyedExactlyOnce ==
    /\ pc = "dropped" => sdk.destroyed = 1
    /\ pc # "dropped" => sdk.destroyed = 0
    /\ late = 0

C2_Witness ==
    /\ pc = "dropped" /\ last.op = "drop" /\ sdk.destroyed = 1
    /\ sdk.port # 0

\* C3: a scan returned by do_process_simple has exactly npoints points, the
\* i-th built from the i-th native record, and the native timestamp.
C3_ScanCopiesNativePoints ==
    (last.op = "do_process_simple" /\ last.result.kind = "Ok") =>
        /\ Len(last.result.scan) = 1
        /\ LET scan == last.result.scan[1]
               fan == last.fan
           IN  /\ Len(scan.points) = fan.npoints
               /\ \A i \in 1..fan.npoints :
                      /\ scan.points[i].angle = fan.points[i].angle
                      /\ scan.points[i].range = fan.points[i].range
                      /\ scan.points[i].intensity = fan.points[i].intensity
               /\ scan.stamp = fan.stamp

C3_Witness ==
    /\ last.op = "do_process_simple" /\ last.result.kind = "Ok"
    /\ last.fan.npoints = 2 /\ last.fan.npoints <= MaxPoints
    /\ last.fan.points[1] # last.fan.points[2]
    /\ last.fan.stamp # 0
    /\ Len(last.result.scan[1].points) = 2

\* C4: when doProcessSimple reports failure, do_process_simple returns an Err
\* and no LaserScan is constructed.
C4_FailureReturnsErr ==
    (last.op = "do_process_simple" /\ FailedCalls # {}) =>
        /\ last.result.kind = "Err"
        /\ last.result.scan = <<>>

\* The native enumeration entry of each LidarProperty variant.
OptionOf ==
    [v \in StrVariants \cup IntVariants \cup FloatVariants \cup BoolVariants |->
        CASE v = "SerialPort" -> "LidarPropSerialPort"
          [] v = "IgnoreArray" -> "LidarPropIgnoreArray"
          [] v = "SerialBaudRate" -> "LidarPropSerialBaudrate"
          [] v = "IntensityBit" -> "LidarPropIntenstiyBit"
          [] v = "Intensity" -> "LidarPropIntenstiy"
          [] OTHER -> "LidarProp" \o v]

DecodeInt(mem) ==
    mem[1] + 256 * mem[2] + 65536 * mem[3]
    + 16777216 * (IF mem[4] >= 128 THEN mem[4] - 256 ELSE mem[4])

DecodeFloat(mem) ==
    F32(mem[4] \div 128, (mem[4] % 128) * 2 + (mem[3] \div 128),
        (mem[3] % 128) * 65536 + mem[2] * 256 + mem[1])

\* A set_option call carries the variant's index, width and value.
CallMatches(call, prop) ==
    /\ call.index = OptionOf[prop.variant]
    /\ CASE prop.kind = "bool" ->
              call.len = 1 /\ Len(call.mem) = 1 /\ (call.mem[1] = 1) = prop.b
              /\ call.mem[1] \in {0, 1}
         [] prop.kind = "int" ->
              call.len = 4 /\ Len(call.mem) = 4 /\ DecodeInt(call.mem) = prop.i
         [] prop.kind = "float" ->
              call.len = 4 /\ Len(call.mem) = 4 /\ DecodeFloat(call.mem) = prop.f
         [] prop.kind = "str" ->
              call.len = Len(prop.s) /\ IsTextOf(prop.s, call.mem)

\* C5: for every LidarProperty variant, set_property makes one set_option
\* call, with the index of that option, the byte width of the variant's type
\* (bool 1, int 4, float 4, string: its length without the terminator) and
\* the value the variant carries.
C5_OneSetOptionCall ==
    last.op = "set_property" =>
        /\ Cardinality(CallsOf({"setlidaropt"})) = 1
        /\ \A i \in CallsOf({"setlidaropt"}) : CallMatches(last.calls[i], last.prop)

\* C5, the part the code keeps: every set_option call that set_property makes
\* carries the index, width and value of the variant, and a set_property
\* that returns has made exactly one.
C5_MadeCallMatches ==
    last.op = "set_property" =>
        /\ \A i \in CallsOf({"setlidaropt"}) : CallMatches(last.calls[i], last.prop)
        /\ last.result.kind # "Panic" => Cardinality(CallsOf({"setlidaropt"})) = 1

\* C6: DescribeError is queried if and only if the operation's boolean native
\* call failed, directly after that call, and the description of a returned
\* error is the text the query returned.
C6_DescribeOnlyAfterFailure ==
    last.op \in ErrOps =>
        /\ (CallsOf({"DescribeError"}) # {}) <=> (FailedCalls # {})
        /\ Cardinality(CallsOf({"DescribeError"})) <= 1
        /\ \A i \in CallsOf({"DescribeError"}) : i - 1 \in FailedCalls
        /\ last.result.kind = "Err" =>
               \E i \in CallsOf({"DescribeError"}) :
                   IsTextOf(last.result.description, last.calls[i].text)

C6_Witness ==
    /\ last.op = "set_property" /\ last.result.kind = "Err"
    /\ last.result.description = <<195, 169>>
    /\ Len(last.calls) = 2 /\ ~last.calls[1].ret
    /\ last.calls[2].fn = "DescribeError"

\* C7: no public operation panics, whatever the string, the native error
\* description or the point count; a failed native call is returned as Err,
\* never as Ok; and no native call is retried.
C7_FailuresReturnedAsErr ==
    last.op \in ErrOps =>
        /\ last.result.kind # "Panic"
        /\ FailedCalls # {} => last.result.kind = "Err"
        /\ Cardinality(CallsOf(BoolFns)) <= 1

\* C8: with a native layer that accepts everything and simulates one scan of
\* at least one point with a non-zero timestamp, every step of the
\* start_lidar sequence returns Ok and runs to the end, and the scan returned
\* has stamp # 0 and a non-empty points sequence.
C8_ScenarioCompletes ==
    /\ last.result.kind \in {"Ok", "Unit"}
    /\ pc # "unwinding"
    /\ step < Finished => pc = "live"
    /\ step = AtScan + 1 =>
           /\ last.op = "do_process_simple"
           /\ last.result.kind = "Ok"
           /\ Len(last.result.scan) = 1
           /\ last.result.scan[1].stamp # 0
           /\ Len(last.result.scan[1].points) > 0

C8_Witness ==
    /\ step = AtTurnOff /\ last.op = "do_process_simple"
    /\ last.result.kind = "Ok"
    /\ lidar_port.bytes = Script[1].s

\* C9: until the native handle is destroyed, every string pointer the native
\* layer retains points to the current, not released storage of the
\* corresponding field, also after a set_property the native layer rejected;
\* the fields are released only after the handle is destroyed.
C9_RetainedPointersValid ==
    /\ sdk.destroyed = 0 =>
           /\ sdk.port # 0 => (sdk.port = lidar_port.ptr /\ sdk.port \notin freed)
           /\ sdk.ignore # 0 => (sdk.ignore = ignore_array.ptr /\ sdk.ignore \notin freed)
    /\ (lidar_port.ptr \in freed \/ ignore_array.ptr \in freed) => sdk.destroyed > 0

\* Storage and content of a buffer field are what they were.
SameBuffer(old, new) ==
    /\ new = old
    /\ old.ptr \notin freed'
    /\ heap'[old.ptr] = heap[old.ptr]

\* C10: lidar_port changes only in set_property(SerialPort(_)) and
\* ignore_array only in set_property(IgnoreArray(_)); every other
\* set_property, initialize, turn_on, turn_off, disconnect and
\* do_process_simple leaves both as they were, on success and on failure.
C10_BuffersChangeOnlyOnOwnProperty ==
    [][ last'.op \in ErrOps \cup {"disconnect"} =>
          /\ ~(last'.op = "set_property" /\ last'.prop.variant = "SerialPort")
                 => SameBuffer(lidar_port, lidar_port')
          /\ ~(last'.op = "set_property" /\ last'.prop.variant = "IgnoreArray")
                 => SameBuffer(ignore_array, ignore_array') ]_vars

C10_Witness ==
    /\ last.op = "set_property" /\ last.prop.variant = "IgnoreArray"
    /\ last.result.kind = "Err"
    /\ ignore_array.bytes = last.prop.s /\ ignore_array.bytes # <<>>
    /\ lidar_port.bytes = <<>> /\ lidar_port.ptr > 2

====
